---- MODULE Spec2Model ----
(***************************************************************************)
(* Model of the dotclock flip-dot display: the FlipDot cell (a React       *)
(* component whose effect drives a chain of three setTimeout timers), the  *)
(* FlipDotDisplay grid that renders one keyed FlipDot per matrix entry,    *)
(* and the radial stagger delay.                                           *)
(*                                                                         *)
(* Time is in milliseconds.  All timers live in one queue, kept in         *)
(* creation order, as in the browser's timer list: a timer may fire only   *)
(* when its remaining time is 0, among due timers the earliest created     *)
(* fires first, and time never advances past a due timer.                  *)
(***************************************************************************)
EXTENDS Integers, Sequences, FiniteSets, TLC

VARIABLES
    cell,           \* the FlipDot instance of the single-cell specifications
    timers,         \* the timer queue
    budget,         \* environment steps still allowed
    lastOp,         \* the last step taken
    dimensions,     \* FlipDotDisplay state: {cols, rows}
    displayMatrix,  \* FlipDotDisplay state: rows of booleans
    grid,           \* the mounted FlipDot instances, by React key
    probe,          \* two cells and the delays computed for them
    sound,          \* the FlipDotSoundManager
    wallClock,      \* Date.now()
    hist,           \* what the triggers of the sound manager have been so far
    soundSettings,  \* useFlipDotSound state
    storage,        \* localStorage item 'flipDotSoundSettings'
    loaded,         \* the item the settings were initialized from
    audio,          \* the audio context: its clock and the sounds it holds
    display         \* FlipDotDisplay: clock format, time, window and mount

vars == <<cell, timers, budget, lastOp, dimensions, displayMatrix, grid, probe,
          sound, wallClock, hist, soundSettings, storage, loaded, audio,
          display>>

gridVars == <<dimensions, displayMatrix, grid, probe, display>>

soundVars == <<sound, wallClock, hist, soundSettings, storage, loaded, audio>>

-----------------------------------------------------------------------------
(* Bounds of the model *)

\* number of prop changes (target, delay, callback) the parent may make
MaxChanges == 4
\* fixed-point resolution of a delay: a delay prop is kept in 1/Scale ms
Scale == 1000
\* granularity at which the environment may act between two timer deadlines
TickMs == 50

-----------------------------------------------------------------------------
(* Program constants *)

\* FlipDot.tsx:29  setTimeout(..., 100) between flip start and setCurrentState
FlipMs == 100
\* FlipDot.tsx:27  setTimeout(..., 100) between setCurrentState and setIsFlipping(false)
ResetMs == 100

\* delay props the single-cell specification draws from (fixed point):
\* 0 ms, 50.5 ms (shorter than a flip phase), 150 ms (longer than one)
CellDelays == {0, 50 * Scale + Scale \div 2, 150 * Scale}

TheCell == "cell"

-----------------------------------------------------------------------------
(* Timers *)

\* setTimeout(fn, delay): the delay is converted to an integer number of ms
TimeoutMs(delay) == delay \div Scale

\* cb is the onFlip the callback closed over (0 where it calls none)
Timer(o, k, ms, tgt) ==
    [owner |-> o, kind |-> k, rem |-> ms, target |-> tgt, cb |-> 0]

RemoveAt(q, i) == [j \in 1..(Len(q) - 1) |-> IF j < i THEN q[j] ELSE q[j + 1]]

DueIdx(q) == {i \in 1..Len(q) : q[i].rem = 0}

\* the due timer that fires next: the earliest created one
NextDue(q) == CHOOSE i \in DueIdx(q) : \A j \in DueIdx(q) : i <= j

MinRem(q) == CHOOSE m \in {q[i].rem : i \in 1..Len(q)} :
                 \A i \in 1..Len(q) : m <= q[i].rem

\* amounts of time that may pass: up to the next deadline, never beyond it
ElapseChoices(q) ==
    IF Len(q) = 0 \/ DueIdx(q) # {} THEN {}
    ELSE {MinRem(q)} \cup {d \in {TickMs} : d < MinRem(q)}

Advance(q, d) == [i \in 1..Len(q) |-> [q[i] EXCEPT !.rem = @ - d]]

-----------------------------------------------------------------------------
(* The FlipDot component *)

\* useState(false), useState(isActive); the first effect run finds
\* currentState = isActive and schedules nothing
\* flips, changes, sinceChange and born record the instance's history:
\* onFlip calls, changes of currentState, onFlip calls since the last change,
\* the step at which the instance was created, and the onFlip called last
NewCell(a, d, f, b) ==
    [mounted |-> TRUE, isActive |-> a, delay |-> d, onFlip |-> f,
     currentState |-> a, isFlipping |-> FALSE,
     flips |-> 0, changes |-> 0, sinceChange |-> 0, born |-> b, lastCb |-> 0]

\* an effect that returns no cleanup
EffectCleanup_None(q, o) == q

\* the cleanup the effect returns: clearTimeout(timeoutId)
EffectCleanup(q, o) ==
    SelectSeq(q, LAMBDA t : ~(t.owner = o /\ t.kind = "start"))

\* an effect whose test is inverted
EffectBody_Inverted(c, q, o) ==
    IF c.currentState = c.isActive
    THEN Append(q, Timer(o, "start", TimeoutMs(c.delay), c.isActive))
    ELSE q

\* the effect body: schedule the start timer when currentState # isActive;
\* its callback closes over the isActive and onFlip of this render
EffectBody(c, q, o) ==
    IF c.currentState # c.isActive
    THEN Append(q, [Timer(o, "start", TimeoutMs(c.delay), c.isActive)
                       EXCEPT !.cb = c.onFlip])
    ELSE q

\* a dependency changed: previous cleanup, then the body
RunEffect(c, q, o) == EffectBody(c, EffectCleanup(q, o), o)

\* props compared without onFlip: a new callback alone re-runs no effect
SetProps_StaleOnFlip(c, q, o, a, d, f) ==
    IF <<a, d>> = <<c.isActive, c.delay>>
    THEN [cell |-> [c EXCEPT !.onFlip = f], timers |-> q]
    ELSE LET c1 == [c EXCEPT !.isActive = a, !.delay = d, !.onFlip = f]
         IN  [cell |-> c1, timers |-> RunEffect(c1, q, o)]

\* the parent re-renders the memoized component with props (a, d, f)
SetProps(c, q, o, a, d, f) ==
    IF <<a, d, f>> = <<c.isActive, c.delay, c.onFlip>>
    THEN [cell |-> c, timers |-> q]
    ELSE LET c1 == [c EXCEPT !.isActive = a, !.delay = d, !.onFlip = f]
         IN  [cell |-> c1, timers |-> RunEffect(c1, q, o)]

\* a start callback that leaves the onFlip call out
FireStart_NoCallback(c, q, t) ==
    [cell |-> [c EXCEPT !.isFlipping = IF c.mounted THEN TRUE ELSE @],
     timers |-> Append(q, Timer(t.owner, "flip", FlipMs, t.target))]

\* the start timer's callback: setIsFlipping(true), onFlip(), arm the flip timer
FireStart(c, q, t) ==
    [cell |-> [c EXCEPT !.isFlipping = IF c.mounted THEN TRUE ELSE @,
                        !.flips = @ + 1,
                        !.sinceChange = @ + 1,
                        !.lastCb = t.cb],
     timers |-> Append(q, Timer(t.owner, "flip", FlipMs, t.target))]

\* a flip callback after which the effect does not run again
\* (currentState missing from the dependency list)
FireFlip_NoEffect(c, q, t) ==
    LET q1 == Append(q, Timer(t.owner, "reset", ResetMs, t.target))
    IN  IF c.mounted /\ c.currentState # t.target
        THEN [cell |-> [c EXCEPT !.currentState = t.target,
                                 !.changes = @ + 1,
                                 !.sinceChange = 0],
              timers |-> q1]
        ELSE [cell |-> c, timers |-> q1]

\* a flip callback that also calls onFlip, at completion
FireFlip_LateCallback(c, q, t) ==
    LET q1 == Append(q, Timer(t.owner, "reset", ResetMs, t.target))
    IN  IF c.mounted /\ c.currentState # t.target
        THEN LET c1 == [c EXCEPT !.currentState = t.target,
                                 !.changes = @ + 1,
                                 !.flips = @ + 1,
                                 !.sinceChange = 0]
             IN  [cell |-> c1, timers |-> RunEffect(c1, q1, t.owner)]
        ELSE [cell |-> c, timers |-> q1]

\* the flip timer's callback: setCurrentState(isActive) with the captured
\* isActive, arm the reset timer; the state change re-runs the effect
FireFlip(c, q, t) ==
    LET q1 == Append(q, Timer(t.owner, "reset", ResetMs, t.target))
    IN  IF c.mounted /\ c.currentState # t.target
        THEN LET c1 == [c EXCEPT !.currentState = t.target,
                                 !.changes = @ + 1,
                                 !.sinceChange = 0]
             IN  [cell |-> c1, timers |-> RunEffect(c1, q1, t.owner)]
        ELSE [cell |-> c, timers |-> q1]

\* the reset timer's callback: setIsFlipping(false)
FireReset(c, q, t) ==
    [cell |-> [c EXCEPT !.isFlipping = IF c.mounted THEN FALSE ELSE @],
     timers |-> q]

FireTimer(c, q, i) ==
    LET t    == q[i]
        rest == RemoveAt(q, i)
    IN  CASE t.kind = "start" -> FireStart(c, rest, t)
          [] t.kind = "flip"  -> FireFlip(c, rest, t)
          [] t.kind = "reset" -> FireReset(c, rest, t)

\* a mount whose state starts unlit instead of at the first target
MountCell_StartsUnlit(a, d, f, b, q, o) ==
    LET c == [NewCell(a, d, f, b) EXCEPT !.currentState = FALSE]
    IN  [cell |-> c, timers |-> EffectBody(c, q, o)]

\* mount: useState(isActive) initialises the state, then the effect runs
\* for the first time
MountCell(a, d, f, b, q, o) ==
    LET c == NewCell(a, d, f, b)
    IN  [cell |-> c, timers |-> EffectBody(c, q, o)]

\* an unmount that leaves the start timer armed
UnmountCell_NoCleanup(c, q, o) ==
    [cell |-> [c EXCEPT !.mounted = FALSE], timers |-> q]

\* unmount: React runs the last effect's cleanup and drops the instance
UnmountCell(c, q, o) ==
    [cell |-> [c EXCEPT !.mounted = FALSE], timers |-> EffectCleanup(q, o)]

-----------------------------------------------------------------------------
(* Observations on a cell *)

HasStart(q, o) == \E i \in 1..Len(q) : q[i].owner = o /\ q[i].kind = "start"

\* transitions whose start timer has fired and whose reset timer has not
InFlight(q, o) ==
    {i \in 1..Len(q) : q[i].owner = o /\ q[i].kind \in {"flip", "reset"}}

OwnTimers(q, o) == {i \in 1..Len(q) : q[i].owner = o}

\* where a cell stands in its transition cycle
PhaseOf(q, o) ==
    IF InFlight(q, o) # {} THEN "flipping"
    ELSE IF HasStart(q, o) THEN "pending" ELSE "idle"

Quiescent ==
    /\ ~cell.isFlipping
    /\ OwnTimers(timers, TheCell) = {}
    /\ cell.currentState = cell.isActive

-----------------------------------------------------------------------------
(* FlipDotSoundManager *)

\* useFlipDotSound.ts:124  now - this.lastPlayTime < 5
ThrottleGapMs == 5
\* useFlipDotSound.ts:126  this.playCount > 20
BurstCap == 20
\* useFlipDotSound.ts:128  Math.random() > 0.3, in thousandths
KeepBelow == 300
\* useFlipDotSound.ts:49-73  audio nodes created by one createFlipDotSound
NodesPerSound == 6

\* field initializers of the class; gain is the volume last passed to
\* createFlipDotSound (in thousandths), nodes the audio nodes created,
\* resumes the calls of audioContext.resume(), threw an exception that
\* reached the caller
NewManager ==
    [ctx |-> "none", initialized |-> FALSE, lastPlayTime |-> 0, playCount |-> 0,
     nodes |-> 0, resumes |-> 0, gain |-> 0, threw |-> FALSE]

\* an initAudioContext that sets the flag after the try block
InitAudioContext_FlagOutsideTry(s, supported, state) ==
    IF supported
    THEN [s EXCEPT !.ctx = state, !.initialized = TRUE]
    ELSE [s EXCEPT !.initialized = TRUE]

\* initAudioContext: new AudioContextClass() inside try; a failure is caught
\* and logged
InitAudioContext(s, supported, state) ==
    IF supported
    THEN [s EXCEPT !.ctx = state, !.initialized = TRUE]
    ELSE s

\* the constructor (in the browser, where window is defined)
Construct(supported, state) == InitAudioContext(NewManager, supported, state)

\* createFlipDotSound: nothing without a context, else the six nodes
CreateFlipDotSound(s, volume) ==
    IF s.ctx = "none" \/ ~s.initialized THEN s
    ELSE [s EXCEPT !.nodes = @ + NodesPerSound, !.gain = volume]

\* a first test that looks at initialized only
ReturnsEarly_IgnoreEnabled(s, enabled) == ~s.initialized

\* if (!enabled || !this.initialized) return
ReturnsEarly(s, enabled) == ~enabled \/ ~s.initialized

\* a throttle that never resets the counter
CountAfter_NoReset(s, t) == s.playCount + 1

\* playCount after the throttle test
CountAfter(s, t) ==
    IF t - s.lastPlayTime < ThrottleGapMs THEN s.playCount + 1 ELSE 0

\* a drop branch entered from the cap on
Eligible_AtCap(s, t) ==
    t - s.lastPlayTime < ThrottleGapMs /\ s.playCount + 1 >= BurstCap

\* a cap tested before the increment
Eligible_BeforeIncrement(s, t) ==
    t - s.lastPlayTime < ThrottleGapMs /\ s.playCount > BurstCap

\* the trigger reaches the Math.random() test
Eligible(s, t) ==
    t - s.lastPlayTime < ThrottleGapMs /\ s.playCount + 1 > BurstCap

\* (volume / 100) * 0.4, in thousandths
AudioVolume(volume) == (volume * 400) \div 100

\* a trigger that never resumes
ResumesAfter_Never(s) == s.resumes

\* if (this.audioContext?.state === 'suspended') this.audioContext.resume()
ResumesAfter(s) == IF s.ctx = "suspended" THEN s.resumes + 1 ELSE s.resumes

\* a playFlipSound that sets lastPlayTime before the throttle test
PlayFlipSound_StampBeforeDrop(s, t, volume, enabled, rnd) ==
    IF ReturnsEarly(s, enabled)
    THEN [sound |-> s, outcome |-> "noop", eligible |-> FALSE]
    ELSE LET s1 == [s EXCEPT !.playCount = CountAfter(s, t),
                             !.lastPlayTime = t,
                             !.resumes = ResumesAfter(s)]
         IN  IF Eligible(s, t) /\ rnd > KeepBelow
             THEN [sound |-> s1, outcome |-> "dropped", eligible |-> TRUE]
             ELSE [sound |-> CreateFlipDotSound(s1, AudioVolume(volume)),
                   outcome |-> "played",
                   eligible |-> Eligible(s, t)]

\* playFlipSound(volume, enabled) at time t, rnd being Math.random() in
\* thousandths; the outcome says how the call ended
PlayFlipSound(s, t, volume, enabled, rnd) ==
    IF ReturnsEarly(s, enabled)
    THEN [sound |-> s, outcome |-> "noop", eligible |-> FALSE]
    ELSE LET s1 == [s EXCEPT !.playCount = CountAfter(s, t)]
         IN  IF Eligible(s, t) /\ rnd > KeepBelow
             THEN [sound |-> s1, outcome |-> "dropped", eligible |-> TRUE]
             ELSE LET s2 == [s1 EXCEPT !.lastPlayTime = t,
                                       !.resumes = ResumesAfter(s)]
                  IN  [sound |-> CreateFlipDotSound(s2, AudioVolume(volume)),
                       outcome |-> "played",
                       eligible |-> Eligible(s, t)]

\* no trigger yet: lastTrigger is the time of the last trigger made with
\* enabled = true on an initialized engine, run the number of such triggers
\* in a row each less than ThrottleGapMs after the one before, eligibleInRun
\* whether one of them reached the Math.random() test, spaced whether every
\* such trigger so far came more than ThrottleGapMs after the one before
NoHistory(failed) ==
    [ctorFailed |-> failed, lastTrigger |-> -1, run |-> 0,
     eligibleInRun |-> FALSE, spaced |-> TRUE]

\* the history after a trigger at time t
Record(h, s, t, enabled, eligible) ==
    IF ReturnsEarly(s, enabled)
    THEN [h EXCEPT !.run = 0, !.eligibleInRun = FALSE]
    ELSE LET rapid == h.lastTrigger >= 0 /\ t - h.lastTrigger < ThrottleGapMs
             slow  == h.lastTrigger < 0 \/ t - h.lastTrigger > ThrottleGapMs
         IN  [h EXCEPT !.lastTrigger = t,
                       !.run = IF rapid /\ h.run > 0 THEN @ + 1 ELSE 1,
                       !.eligibleInRun = IF rapid /\ h.run > 0
                                         THEN @ \/ eligible ELSE eligible,
                       !.spaced = @ /\ slow]

\* return { enabled: true, volume: 30 }
DefaultSettings == [enabled |-> TRUE, volume |-> 30]

NoItem == [present |-> FALSE, text |-> <<>>]

\* useFlipDotSound.ts:37  duration = 0.08 s, in ms
DurationMs == 80
\* useFlipDotSound.ts:102  snapOscillator.stop(now + 0.02), in ms
SnapMs == 20

\* an audio context that holds no sound: time is currentTime in ms, voices the
\* sounds created, closed whether close() was called, endedLost whether the
\* browser drops the ended events of a closed context
NoAudio == [time |-> 0, voices |-> <<>>, closed |-> FALSE, endedLost |-> FALSE]

\* the sound side of the specifications that make no sound
SoundAtRest ==
    /\ sound = NewManager
    /\ wallClock = 0
    /\ hist = NoHistory(FALSE)
    /\ soundSettings = DefaultSettings
    /\ storage = NoItem
    /\ loaded = NoItem
    /\ audio = NoAudio

-----------------------------------------------------------------------------
(* FlipDotDisplay state besides dimensions and matrix *)

\* toString().padStart(2, '0') of a number below 100: its two digits
Pad2(n) == <<n \div 10, n % 10>>

\* `${hours}:${minutes}:${seconds}` of the clock case: getHours() and
\* getMinutes() padded (seconds are left out); suffix is what follows the
\* digits; clockFormat is not read
ClockString(t) == [hh |-> Pad2(t.h), mm |-> Pad2(t.m), suffix |-> ""]

\* no resize event yet: events counts the events of the current burst (an
\* event less than the debounce time after the one before continues the
\* burst), last is the time of its last event, computed the number of
\* calculateDimensions calls the burst has caused, firedAt the time of the
\* last such call
NoBurst == [events |-> 0, last |-> 0, computed |-> 0, firedAt |-> 0]

\* useState initial values: clockFormat '24', currentTime, the string the
\* clock case put into the matrix; the component is mounted in a window of
\* size win
NewDisplay ==
    [clockFormat |-> "24", time |-> [h |-> 0, m |-> 0],
     timeString |-> ClockString([h |-> 0, m |-> 0]),
     mounted |-> TRUE, win |-> <<0, 0>>, burst |-> NoBurst]

-----------------------------------------------------------------------------
(* Single-cell specification: one FlipDot under an arbitrary parent *)

\* the last step taken: its name, its argument, and the phase the cell was in
Op(n, a, p) == [name |-> n, arg |-> a, pre |-> p]

InitCell ==
    /\ display = NewDisplay
    /\ \E a \in BOOLEAN, d \in CellDelays : cell = NewCell(a, d, 0, MaxChanges)
    /\ timers = <<>>
    /\ budget = MaxChanges
    /\ lastOp = Op("mount", 0, "none")
    /\ dimensions = [cols |-> 0, rows |-> 0]
    /\ displayMatrix = <<>>
    /\ grid = <<>>
    /\ probe = <<>>
    /\ SoundAtRest

SetTarget(v) ==
    /\ cell.mounted
    /\ budget > 0
    /\ LET r == SetProps(cell, timers, TheCell, v, cell.delay, cell.onFlip)
       IN  cell' = r.cell /\ timers' = r.timers
    /\ budget' = budget - 1
    /\ lastOp' = Op("SetTarget", v, PhaseOf(timers, TheCell))
    /\ UNCHANGED <<gridVars, soundVars>>

SetDelay(d) ==
    /\ cell.mounted
    /\ budget > 0
    /\ d # cell.delay
    /\ LET r == SetProps(cell, timers, TheCell, cell.isActive, d, cell.onFlip)
       IN  cell' = r.cell /\ timers' = r.timers
    /\ budget' = budget - 1
    /\ lastOp' = Op("SetDelay", d, PhaseOf(timers, TheCell))
    /\ UNCHANGED <<gridVars, soundVars>>

\* the parent passes a new callback identity (playSound is re-created)
SetOnFlip ==
    /\ cell.mounted
    /\ budget > 0
    /\ LET r == SetProps(cell, timers, TheCell, cell.isActive, cell.delay,
                         1 - cell.onFlip)
       IN  cell' = r.cell /\ timers' = r.timers
    /\ budget' = budget - 1
    /\ lastOp' = Op("SetOnFlip", 0, PhaseOf(timers, TheCell))
    /\ UNCHANGED <<gridVars, soundVars>>

Unmount ==
    /\ cell.mounted
    /\ LET r == UnmountCell(cell, timers, TheCell)
       IN  cell' = r.cell /\ timers' = r.timers
    /\ lastOp' = Op("Unmount", 0, PhaseOf(timers, TheCell))
    /\ UNCHANGED <<budget, gridVars, soundVars>>

Fire ==
    /\ DueIdx(timers) # {}
    /\ LET i == NextDue(timers)
           r == FireTimer(cell, timers, i)
       IN  /\ cell' = r.cell
           /\ timers' = r.timers
           /\ lastOp' = Op(timers[i].kind, 0, "none")
    /\ UNCHANGED <<budget, gridVars, soundVars>>

Elapse ==
    /\ \E d \in ElapseChoices(timers) : timers' = Advance(timers, d)
    /\ lastOp' = Op("Elapse", 0, "none")
    /\ UNCHANGED <<cell, budget, gridVars, soundVars>>

NextCell ==
    \/ \E v \in BOOLEAN : SetTarget(v)
    \/ \E d \in CellDelays : SetDelay(d)
    \/ SetOnFlip
    \/ Unmount
    \/ Fire
    \/ Elapse

Spec == InitCell /\ [][NextCell]_vars

\* every scheduled timer eventually fires
FairSpec == Spec /\ WF_vars(Fire) /\ WF_vars(Elapse)

\* the parent changes nothing but the target
NextTargets ==
    \/ \E v \in BOOLEAN : SetTarget(v)
    \/ Unmount
    \/ Fire
    \/ Elapse

SpecTargets == InitCell /\ [][NextTargets]_vars

-----------------------------------------------------------------------------
(* Claims about the single cell *)

\* C1: at every moment at most one transition of the cell is in flight:
\* never two timer chains that have both started and not yet finished.
C1_SingleInFlight == Cardinality(InFlight(timers, TheCell)) <= 1

\* C2: once its props stop changing, a mounted cell eventually is idle with
\* no timer pending and currentState equal to the last requested target,
\* given that every scheduled timer eventually fires.
C2_EventuallySettles == <>[](cell.mounted => Quiescent)

\* settled after a target change that arrived in mid-transition
C2_Witness ==
    /\ cell.mounted /\ Quiescent /\ budget = 0
    /\ cell.changes >= 2 /\ cell.flips > cell.changes

\* C3: onFlip fires exactly once between two consecutive changes of
\* currentState, so at quiescence the number of onFlip invocations equals
\* the number of changes of currentState.
C3_OneFlipPerChange ==
    (cell.mounted /\ Quiescent) => cell.flips = cell.changes

\* C4: setting the target to currentState while the cell is idle with no
\* timer pending schedules nothing, invokes no callback and leaves
\* currentState and the phase as they are.
C4_IdleSameTargetNoop ==
    [][(/\ lastOp'.name = "SetTarget"
        /\ lastOp'.arg = cell.currentState
        /\ ~cell.isFlipping
        /\ OwnTimers(timers, TheCell) = {})
       => (/\ timers' = timers
           /\ cell'.flips = cell.flips
           /\ cell'.currentState = cell.currentState
           /\ cell'.isFlipping = cell.isFlipping)]_vars

\* the target was set to currentState on an idle cell that had flipped before
C4_Witness ==
    /\ lastOp.name = "SetTarget" /\ lastOp.pre = "idle"
    /\ lastOp.arg = cell.currentState
    /\ ~cell.isFlipping /\ cell.changes > 0

\* C5: a target replaced by a value equal to currentState before the start
\* timer fired cancels that timer: no callback, no phase change, no change
\* of currentState comes from the abandoned request.
C5_PendingCancelled ==
    [][(/\ lastOp'.name = "SetTarget"
        /\ HasStart(timers, TheCell)
        /\ lastOp'.arg = cell.currentState)
       => (/\ ~HasStart(timers', TheCell)
           /\ Len(timers') = Len(timers) - 1
           /\ cell'.flips = cell.flips
           /\ cell'.isFlipping = cell.isFlipping
           /\ cell'.currentState = cell.currentState)]_vars

\* a pending request was withdrawn and the cell is back to rest
C5_Witness ==
    /\ lastOp.name = "SetTarget" /\ lastOp.pre = "pending"
    /\ lastOp.arg = cell.currentState
    /\ timers = <<>> /\ cell.flips = 0

\* C6: when the target changes, every timer of the earlier transition is
\* cancelled, so every pending timer of a mounted cell belongs to a
\* transition towards the current target.
C6_SupersededCancelled ==
    cell.mounted =>
        \A i \in OwnTimers(timers, TheCell) : timers[i].target = cell.isActive

\* C7: after the cell is unmounted its onFlip is never invoked again.
C7_NoFlipAfterUnmount ==
    [][~cell.mounted => cell'.flips = cell.flips]_vars

\* a cell destroyed while a request was pending, some time later
C7_Witness ==
    /\ ~cell.mounted
    /\ cell.currentState # cell.isActive
    /\ timers = <<>>

\* C8: unmounting cancels every outstanding timer of the cell.
C8_UnmountCancelsAll ==
    ~cell.mounted => OwnTimers(timers, TheCell) = {}

-----------------------------------------------------------------------------
(* The stagger delay of FlipDotDisplay's render *)

\* largest grid side of the delay specification
MaxDim == 4

\* part_000:306  delay = distance * 1
StaggerUnit == 1

RECURSIVE SqrtSearch(_, _, _)
SqrtSearch(n, lo, hi) ==
    IF lo = hi THEN lo
    ELSE LET mid == (lo + hi + 1) \div 2
         IN  IF mid * mid <= n THEN SqrtSearch(n, mid, hi)
                               ELSE SqrtSearch(n, lo, mid - 1)

\* Math.sqrt of an integer, in fixed point (1/Scale), rounded down
Sqrt(n) == SqrtSearch(n * Scale * Scale, 0, n * Scale)

\* a delay computed from the row offset alone
Delay_RowOnly(r, c, rows, cols) ==
    LET centerRow == rows \div 2
    IN  Sqrt((r - centerRow) * (r - centerRow)) * StaggerUnit

\* a delay measured from the corner (0, 0) instead of the center
Delay_FromOrigin(r, c, rows, cols) ==
    Sqrt(r * r + c * c) * StaggerUnit

\* the delay prop of the cell at (r, c), in fixed point
Delay(r, c, rows, cols) ==
    LET centerRow == rows \div 2
        centerCol == cols \div 2
        distance  == Sqrt((r - centerRow) * (r - centerRow)
                          + (c - centerCol) * (c - centerCol))
    IN  distance * StaggerUnit

-----------------------------------------------------------------------------
(* Delay specification: the delays of two cells of a grid *)

InitDelay ==
    /\ display = NewDisplay
    /\ cell = NewCell(FALSE, 0, 0, 0)
    /\ timers = <<>>
    /\ budget = 0
    /\ lastOp = Op("mount", 0, "none")
    /\ \E rs \in 1..MaxDim, cs \in 1..MaxDim :
           dimensions = [cols |-> cs, rows |-> rs]
    /\ displayMatrix = <<>>
    /\ grid = <<>>
    /\ probe = <<>>
    /\ SoundAtRest

\* compute the delay props of the cells a and b as the render does
ComputeDelays ==
    /\ \E ra \in 0..(dimensions.rows - 1), ca \in 0..(dimensions.cols - 1),
          rb \in 0..(dimensions.rows - 1), cb \in 0..(dimensions.cols - 1) :
           probe' = << [r |-> ra, c |-> ca,
                        delay |-> Delay(ra, ca, dimensions.rows, dimensions.cols)],
                       [r |-> rb, c |-> cb,
                        delay |-> Delay(rb, cb, dimensions.rows, dimensions.cols)] >>
    /\ lastOp' = Op("ComputeDelays", 0, "none")
    /\ UNCHANGED <<cell, timers, budget, dimensions, displayMatrix, grid, display, soundVars>>

NextDelay == ComputeDelays

SpecDelay == InitDelay /\ [][NextDelay]_vars

\* squared distance of (r, c) to (floor(rows/2), floor(cols/2))
DistSq(p) ==
    (p.r - dimensions.rows \div 2) * (p.r - dimensions.rows \div 2)
    + (p.c - dimensions.cols \div 2) * (p.c - dimensions.cols \div 2)

\* C10: a cell strictly nearer to the center has a strictly smaller delay;
\* the center cell has delay 0 and every other cell a positive delay.
C10_DelayOrdered ==
    probe # <<>> =>
        /\ DistSq(probe[1]) < DistSq(probe[2])
               => probe[1].delay < probe[2].delay
        /\ DistSq(probe[1]) = 0 => probe[1].delay = 0
        /\ DistSq(probe[1]) > 0 => probe[1].delay > 0

\* a cell beside the center in its row compared with a corner cell
C10_Witness ==
    /\ probe # <<>>
    /\ dimensions.rows >= 3 /\ dimensions.cols >= 3
    /\ probe[1].r = dimensions.rows \div 2
    /\ probe[1].c # dimensions.cols \div 2
    /\ probe[2].r = 0 /\ probe[2].c = 0
    /\ DistSq(probe[1]) < DistSq(probe[2])

-----------------------------------------------------------------------------
(* FlipDotDisplay: dimensions, display matrix and the keyed grid of cells *)

\* number of resize events and content updates the environment may cause
MaxGridOps == 3

\* viewport sides (window.innerWidth, window.innerHeight) of resize events
Viewports == {10, 20, 30}

\* owner of the timers of instances that were unmounted
Dead == <<>>

\* calculateDimensions: dotSize by breakpoint, gap 1.5, floor((side - 10) / (dotSize + gap))
CalculateDimensions(w, h) ==
    LET dotSize == IF w > 1024 THEN 12
                   ELSE IF w > 768 THEN 10
                   ELSE IF w > 640 THEN 8 ELSE 7
    IN  [cols |-> (2 * (w - 10)) \div (2 * dotSize + 3),
         rows |-> (2 * (h - 10)) \div (2 * dotSize + 3)]

\* the matrices updateDisplay may build, rows x cols: blank, all lit, and
\* the checkerboard lit where row + column is even
Matrices(rows, cols) ==
    { [r \in 1..rows |-> [c \in 1..cols |-> FALSE]],
      [r \in 1..rows |-> [c \in 1..cols |-> TRUE]],
      [r \in 1..rows |-> [c \in 1..cols |-> (r + c) % 2 = 0]] }

\* a key that leaves the column count out
KeyOf_NoCols(r, c, cols) == <<r, c>>

\* key={`${rowIndex}-${colIndex}-${dimensions.cols}`}
KeyOf(r, c, cols) == <<r, c, cols>>

\* the entries of the matrix in render order (row by row)
RECURSIVE Entries(_, _, _)
Entries(m, r, c) ==
    IF r > Len(m) THEN <<>>
    ELSE IF c > Len(m[r]) THEN Entries(m, r + 1, 1)
    ELSE <<[r |-> r - 1, c |-> c - 1, isActive |-> m[r][c]]>>
         \o Entries(m, r, c + 1)

\* instances whose key is not rendered any more are unmounted: the effect
\* cleanup runs, and what is left of their timers has no instance behind it
RECURSIVE UnmountGone(_, _, _)
UnmountGone(g, q, gone) ==
    IF gone = {} THEN q
    ELSE LET k  == CHOOSE x \in gone : TRUE
             q1 == UnmountCell(g[k], q, k).timers
             q2 == [i \in 1..Len(q1) |->
                       IF q1[i].owner = k THEN [q1[i] EXCEPT !.owner = Dead]
                       ELSE q1[i]]
         IN  UnmountGone(g, q2, gone \ {k})

\* rendered entries are reconciled by key: an existing instance gets the new
\* props, a new key mounts a new instance
RECURSIVE Reconcile(_, _, _, _, _, _)
Reconcile(es, old, acc, q, dims, now) ==
    IF es = <<>> THEN [grid |-> acc, timers |-> q]
    ELSE LET e == Head(es)
             k == KeyOf(e.r, e.c, dims.cols)
             d == Delay(e.r, e.c, dims.rows, dims.cols)
         IN  IF k \in DOMAIN old
             THEN LET r == SetProps(old[k], q, k, e.isActive, d, old[k].onFlip)
                  IN  Reconcile(Tail(es), old, (k :> r.cell) @@ acc,
                                r.timers, dims, now)
             ELSE LET m == MountCell(e.isActive, d, 0, now, q, k)
                  IN  Reconcile(Tail(es), old, (k :> m.cell) @@ acc,
                                m.timers, dims, now)

\* one render and commit of the dot grid
Render(g, q, m, dims, now) ==
    LET es   == Entries(m, 1, 1)
        keys == {KeyOf(es[i].r, es[i].c, dims.cols) : i \in 1..Len(es)}
        q1   == UnmountGone(g, q, DOMAIN g \ keys)
    IN  Reconcile(es, g, <<>>, q1, dims, now)

\* some instance has a timer pending
Busy(q) == \E i \in 1..Len(q) : q[i].owner # Dead

InitGrid ==
    /\ display = NewDisplay
    /\ cell = NewCell(FALSE, 0, 0, 0)
    /\ timers = <<>>
    /\ budget = MaxGridOps
    /\ lastOp = Op("mount", 0, "none")
    /\ dimensions = [cols |-> 0, rows |-> 0]
    /\ displayMatrix = <<>>
    /\ grid = <<>>
    /\ probe = <<>>
    /\ SoundAtRest

\* calculateDimensions (on mount and after a resize): setDimensions, the
\* render with the new dimensions, then the updateDisplay effect and, unless
\* it returns early, the render of the matrix it built
Resize(w, h) ==
    /\ budget > 0
    /\ LET dims == CalculateDimensions(w, h)
           r1   == Render(grid, timers, displayMatrix, dims, budget - 1)
       IN  /\ dimensions' = dims
           /\ IF dims.cols = 0 \/ dims.rows = 0
              THEN /\ displayMatrix' = displayMatrix
                   /\ grid' = r1.grid
                   /\ timers' = r1.timers
              ELSE \E m \in Matrices(dims.rows, dims.cols) :
                       LET r2 == Render(r1.grid, r1.timers, m, dims, budget - 1)
                       IN  /\ displayMatrix' = m
                           /\ grid' = r2.grid
                           /\ timers' = r2.timers
    /\ budget' = budget - 1
    /\ lastOp' = Op("Resize", <<w, h>>, [dims |-> dimensions, busy |-> Busy(timers)])
    /\ UNCHANGED <<cell, probe, display, soundVars>>

\* an updateDisplay without the early return on empty dimensions
UpdateDisplay_NoGuard ==
    /\ budget > 0
    /\ \E m \in Matrices(dimensions.rows, dimensions.cols) :
           LET r == Render(grid, timers, m, dimensions, budget - 1)
           IN  /\ displayMatrix' = m
               /\ grid' = r.grid
               /\ timers' = r.timers
    /\ budget' = budget - 1
    /\ lastOp' = Op("UpdateDisplay", 0, "none")
    /\ UNCHANGED <<cell, dimensions, probe, display, soundVars>>

\* updateDisplay after a change of the content (text, mode, clock time)
UpdateDisplay ==
    /\ budget > 0
    /\ IF dimensions.cols = 0 \/ dimensions.rows = 0
       THEN UNCHANGED <<displayMatrix, grid, timers>>
       ELSE \E m \in Matrices(dimensions.rows, dimensions.cols) :
                LET r == Render(grid, timers, m, dimensions, budget - 1)
                IN  /\ displayMatrix' = m
                    /\ grid' = r.grid
                    /\ timers' = r.timers
    /\ budget' = budget - 1
    /\ lastOp' = Op("UpdateDisplay", 0, "none")
    /\ UNCHANGED <<cell, dimensions, probe, display, soundVars>>

\* an instance that is gone: its state setters do nothing
DeadCell == [NewCell(FALSE, 0, 0, 0) EXCEPT !.mounted = FALSE]

GridFire ==
    /\ DueIdx(timers) # {}
    /\ LET i == NextDue(timers)
           o == timers[i].owner
       IN  /\ IF o \in DOMAIN grid
              THEN LET r == FireTimer(grid[o], timers, i)
                   IN  /\ grid' = [grid EXCEPT ![o] = r.cell]
                       /\ timers' = r.timers
              ELSE /\ timers' = FireTimer(DeadCell, timers, i).timers
                   /\ grid' = grid
           /\ lastOp' = Op(timers[i].kind, 0, "none")
    /\ UNCHANGED <<cell, budget, dimensions, displayMatrix, probe, display, soundVars>>

GridElapse ==
    /\ \E d \in ElapseChoices(timers) : timers' = Advance(timers, d)
    /\ lastOp' = Op("Elapse", 0, "none")
    /\ UNCHANGED <<cell, budget, gridVars, soundVars>>

NextGrid ==
    \/ \E w \in Viewports, h \in Viewports : Resize(w, h)
    \/ UpdateDisplay
    \/ GridFire
    \/ GridElapse

SpecGrid == InitGrid /\ [][NextGrid]_vars

-----------------------------------------------------------------------------
(* Claims about the grid *)

AllFresh == \A k \in DOMAIN grid : grid[k].born = budget

\* C9: whenever the grid dimensions change (rows, cols or both), every
\* existing cell instance is discarded and a fresh one created.
C9_DimensionChangeRebuilds ==
    [][dimensions' # dimensions => AllFresh']_vars

\* C9 as amended: whenever the number of columns changes, every existing
\* cell instance is discarded and a fresh one is created for each rendered
\* position, idle apart from the start timer its first target change armed.
C9_ColsChangeRebuilds ==
    [][dimensions'.cols # dimensions.cols =>
          /\ AllFresh'
          /\ \A k \in DOMAIN grid' :
                 /\ ~grid'[k].isFlipping
                 /\ grid'[k].flips = 0
                 /\ InFlight(timers', k) = {}]_vars

\* the column count changed under cells that had timers pending
C9_Witness ==
    /\ lastOp.name = "Resize"
    /\ lastOp.pre.dims.cols # dimensions.cols
    /\ lastOp.pre.dims.cols > 0
    /\ lastOp.pre.busy
    /\ DOMAIN grid # {}

\* C13: updateDisplay is a no-op when cols = 0 or rows = 0: the displayed
\* matrix stays as it is and no cell gets a target.
C13_EmptyDimensionsNoop ==
    [][(lastOp'.name \in {"UpdateDisplay", "Resize"}
        /\ (dimensions'.cols = 0 \/ dimensions'.rows = 0))
       => /\ displayMatrix' = displayMatrix
          /\ lastOp'.name = "UpdateDisplay" => (grid' = grid /\ timers' = timers)]_vars

\* updateDisplay ran on a grid with no rows or no columns while a matrix
\* was on display
C13_Witness ==
    /\ lastOp.name = "UpdateDisplay"
    /\ (dimensions.cols = 0 \/ dimensions.rows = 0)
    /\ displayMatrix # <<>>
    /\ DOMAIN grid # {}

-----------------------------------------------------------------------------
(* Reconcile specification: an idle grid, one new target matrix *)

\* largest grid side of the reconcile specification
MaxSide == 3

Blank(rows, cols) == [r \in 1..rows |-> [c \in 1..cols |-> FALSE]]

Checkerboard(rows, cols) == [r \in 1..rows |-> [c \in 1..cols |-> (r + c) % 2 = 0]]

\* a freshly rendered grid showing some matrix, every cell idle; probe
\* keeps that first matrix
InitReconcile ==
    /\ display = NewDisplay
    /\ cell = NewCell(FALSE, 0, 0, 0)
    /\ timers = <<>>
    /\ budget = 1
    /\ lastOp = Op("mount", 0, "none")
    /\ \E rs \in 1..MaxSide, cs \in 1..MaxSide :
           /\ dimensions = [cols |-> cs, rows |-> rs]
           /\ \E m \in Matrices(rs, cs) :
                  /\ displayMatrix = m
                  /\ probe = m
                  /\ grid = Render(<<>>, <<>>, m, dimensions, 1).grid
    /\ SoundAtRest

NextReconcile ==
    \/ UpdateDisplay
    \/ GridFire
    \/ GridElapse

SpecReconcile == InitReconcile /\ [][NextReconcile]_vars

RECURSIVE SumFlips(_, _)
SumFlips(g, keys) ==
    IF keys = {} THEN 0
    ELSE LET k == CHOOSE x \in keys : TRUE
         IN  g[k].flips + SumFlips(g, keys \ {k})

\* the 3x3 grid, all dark, reconciled once to the checkerboard
CheckerCase ==
    /\ dimensions = [cols |-> 3, rows |-> 3]
    /\ probe = Blank(3, 3)
    /\ displayMatrix = Checkerboard(3, 3)
    /\ budget = 0

Corners == {<<0, 0, 3>>, <<0, 2, 3>>, <<2, 0, 3>>, <<2, 2, 3>>}

\* C11: on the 3x3 grid reconciled from all dark to the checkerboard, the
\* center cell's onFlip fires before that of every corner cell, and once
\* all timers have fired every cell shows its checkerboard value.
C11_CenterBeforeCorners ==
    CheckerCase =>
        /\ \A k \in Corners : grid[k].flips > 0 => grid[<<1, 1, 3>>].flips > 0
        /\ timers = <<>> =>
               \A r \in 0..2, c \in 0..2 :
                   grid[<<r, c, 3>>].currentState = displayMatrix[r + 1][c + 1]

\* the checkerboard is on display and every corner has flipped
C11_Witness ==
    /\ CheckerCase
    /\ timers = <<>>
    /\ \A k \in Corners : grid[k].flips = 1 /\ grid[k].currentState

\* C12: after one reconcile of an idle grid, at quiescence, the number of
\* onFlip invocations equals the number of cells whose target differed from
\* their currentState.
C12_FlipsEqualDifferences ==
    (budget = 0 /\ timers = <<>>) =>
        SumFlips(grid, DOMAIN grid)
            = Cardinality({rc \in (1..dimensions.rows) \X (1..dimensions.cols) :
                              probe[rc[1]][rc[2]] # displayMatrix[rc[1]][rc[2]]})

\* the five flips of the checkerboard case
C12_Witness ==
    /\ CheckerCase
    /\ timers = <<>>
    /\ SumFlips(grid, DOMAIN grid) = 5

-----------------------------------------------------------------------------
(* Sound manager specification: one manager, triggers and the clock *)

MaxTriggers == 23
MaxElapsed == 7
StartTime == 1000
Volumes == {30, 100}
RandomDraws == {KeepBelow, KeepBelow + 1}
ClockSteps == {1, ThrottleGapMs, ThrottleGapMs + 1}

InitSound ==
    /\ display = NewDisplay
    /\ cell = NewCell(FALSE, 0, TRUE, 0)
    /\ timers = <<>>
    /\ budget = MaxTriggers
    /\ lastOp = Op("init", 0, "none")
    /\ dimensions = [cols |-> 0, rows |-> 0]
    /\ displayMatrix = <<>>
    /\ grid = <<>>
    /\ probe = <<>>
    /\ \E supported \in BOOLEAN, state \in {"running", "suspended"} :
          /\ sound = Construct(supported, state)
          /\ hist = NoHistory(~supported)
    /\ wallClock = StartTime
    /\ soundSettings = DefaultSettings
    /\ storage = NoItem
    /\ loaded = NoItem
    /\ audio = NoAudio

\* soundManager.playFlipSound(volume, enabled); the calls that get past the
\* first test are counted
Trigger(volume, enabled, rnd) ==
    /\ budget > 0
    /\ LET r == PlayFlipSound(sound, wallClock, volume, enabled, rnd)
       IN  /\ sound' = r.sound
           /\ hist' = Record(hist, sound, wallClock, enabled, r.eligible)
           /\ lastOp' = Op("playFlipSound",
                           [volume |-> volume, enabled |-> enabled,
                            outcome |-> r.outcome, eligible |-> r.eligible],
                           sound)
    /\ budget' = IF ReturnsEarly(sound, enabled) THEN budget ELSE budget - 1
    /\ UNCHANGED <<cell, timers, gridVars, wallClock, soundSettings, storage, loaded, audio>>

\* Date.now() moves on
Tick(d) ==
    /\ wallClock + d <= StartTime + MaxElapsed
    /\ wallClock' = wallClock + d
    /\ lastOp' = Op("tick", d, sound)
    /\ UNCHANGED <<cell, timers, budget, gridVars, sound, hist,
                   soundSettings, storage, loaded, audio>>

NextSound ==
    \/ \E v \in Volumes, e \in BOOLEAN, rnd \in RandomDraws : Trigger(v, e, rnd)
    \/ \E d \in ClockSteps : Tick(d)

SpecSound == InitSound /\ [][NextSound]_vars

\* C14: a trigger made with enabled = false leaves the manager as it was:
\* no sound is produced and neither lastPlayTime nor playCount changes.
C14_DisabledTriggerNoop ==
    [][(lastOp'.name = "playFlipSound" /\ ~lastOp'.arg.enabled)
       => sound' = sound]_vars

C14_Witness ==
    /\ lastOp.name = "playFlipSound"
    /\ ~lastOp.arg.enabled
    /\ lastOp.pre.initialized
    /\ lastOp.pre.playCount > 0
    /\ wallClock - lastOp.pre.lastPlayTime < ThrottleGapMs
    /\ sound = lastOp.pre

\* C15: when the audio context cannot be created the constructor raises
\* nothing, the manager stays uninitialized, and every later trigger leaves it
\* as it was and creates no audio node.
C15_FailedInitStaysSilent ==
    [][hist.ctorFailed
       => /\ ~sound.initialized
          /\ ~sound.threw
          /\ sound.nodes = 0
          /\ sound' = sound]_vars

C15_Witness ==
    /\ hist.ctorFailed
    /\ lastOp.name = "playFlipSound"
    /\ lastOp.arg.enabled
    /\ lastOp.arg.outcome = "noop"
    /\ sound = NewManager

\* C16 as stated: in a run of 21 triggers, each less than 5 ms after the one
\* before, on an enabled initialized manager, one trigger reaches the
\* Math.random() test.
C16_DropWithin21 == hist.run >= 21 => hist.eligibleInRun

\* C16: in a run of 22 triggers, each less than 5 ms after the one before, on
\* an enabled initialized manager, one trigger reaches the Math.random() test.
C16_DropWithin22 == hist.run >= 22 => hist.eligibleInRun

\* the 22nd trigger of a run that began after a gap is the first to reach it
C16_Witness ==
    /\ lastOp.name = "playFlipSound"
    /\ hist.run = 22
    /\ lastOp.pre.playCount = BurstCap
    /\ lastOp.arg.eligible

\* C17: while every trigger on an enabled initialized manager comes more than
\* 5 ms after the one before, each trigger is played and leaves playCount 0.
C17_SpacedTriggersAllPlay ==
    (/\ lastOp.name = "playFlipSound"
     /\ hist.spaced
     /\ ~ReturnsEarly(lastOp.pre, lastOp.arg.enabled))
    => /\ lastOp.arg.outcome = "played"
       /\ sound.playCount = 0
       /\ sound.nodes = lastOp.pre.nodes + NodesPerSound

C17_Witness ==
    /\ lastOp.name = "playFlipSound"
    /\ hist.spaced
    /\ lastOp.arg.outcome = "played"
    /\ lastOp.pre.nodes > 0
    /\ wallClock - lastOp.pre.lastPlayTime = ThrottleGapMs + 1
    /\ sound.playCount = 0

-----------------------------------------------------------------------------
(* useFlipDotSound: settings and their localStorage item *)

\* a string is a sequence of tokens; n is the value of a number token
Tok(t) == [t |-> t, n |-> 0]
Num(n) == [t |-> "num", n |-> n]

Item(text) == [present |-> TRUE, text |-> text]

\* a stringify that writes the default volume
JSONStringify_DefaultVolume(o) ==
    <<Tok("{"), Tok("enabled"), Tok(":"),
      Tok(IF o.enabled THEN "true" ELSE "false"), Tok(","),
      Tok("volume"), Tok(":"), Num(30), Tok("}")>>

\* JSON.stringify of a settings object
JSONStringify(o) ==
    <<Tok("{"), Tok("enabled"), Tok(":"),
      Tok(IF o.enabled THEN "true" ELSE "false"), Tok(","),
      Tok("volume"), Tok(":"), Num(o.volume), Tok("}")>>

\* key : value at positions i .. i+2 of the text
IsMember(text, i, key) ==
    /\ text[i] = Tok(key)
    /\ text[i + 1] = Tok(":")
    /\ IF key = "enabled"
       THEN text[i + 2] \in {Tok("true"), Tok("false")}
       ELSE text[i + 2].t = "num"

\* JSON.parse on the text of an object with the members enabled and volume,
\* in either order; any other text here is a syntax error (ok = FALSE)
JSONParse(text) ==
    LET framed == /\ Len(text) = 9
                  /\ text[1] = Tok("{")
                  /\ text[5] = Tok(",")
                  /\ text[9] = Tok("}")
        ev == framed /\ IsMember(text, 2, "enabled") /\ IsMember(text, 6, "volume")
        ve == framed /\ IsMember(text, 2, "volume") /\ IsMember(text, 6, "enabled")
    IN  IF ev
        THEN [ok |-> TRUE,
              value |-> [enabled |-> text[4] = Tok("true"), volume |-> text[8].n]]
        ELSE IF ve
        THEN [ok |-> TRUE,
              value |-> [enabled |-> text[8] = Tok("true"), volume |-> text[4].n]]
        ELSE [ok |-> FALSE, value |-> DefaultSettings]

\* the useState initializer: getItem, if (saved), JSON.parse in try/catch
InitialSettings(item) ==
    IF item.present /\ item.text # <<>> /\ JSONParse(item.text).ok
    THEN JSONParse(item.text).value
    ELSE DefaultSettings

\* an effect that never writes
PersistEffect_Skip(item, settings) == item

\* useEffect(..., [soundSettings]): setItem(JSON.stringify(soundSettings))
PersistEffect(item, settings) == Item(JSONStringify(settings))

ClampMin(a, b) == IF a < b THEN a ELSE b
ClampMax(a, b) == IF a > b THEN a ELSE b

\* a clamp without the lower bound
ClampVolume_NoFloor(volume) == ClampMin(100, volume)

\* Math.max(0, Math.min(100, volume))
ClampVolume(volume) == ClampMax(0, ClampMin(100, volume))

MaxSettingsOps == 4
VolumeInputs == {-5, 0, 77, 100, 150}

\* what may be found under the key at mount: nothing, the empty string, a cut
\* off text, a text that is no JSON, stored settings in both member orders,
\* and settings with a volume outside 0..100
StoredItems ==
    { NoItem,
      Item(<<>>),
      Item(SubSeq(JSONStringify(DefaultSettings), 1, 5)),
      Item(<<Tok("undefined")>>),
      Item(JSONStringify([enabled |-> FALSE, volume |-> 77])),
      Item(<<Tok("{"), Tok("volume"), Tok(":"), Num(0), Tok(","),
             Tok("enabled"), Tok(":"), Tok("true"), Tok("}")>>),
      Item(JSONStringify([enabled |-> TRUE, volume |-> 500])),
      Item(JSONStringify([enabled |-> TRUE, volume |-> -5])) }

\* the hook mounted over a stored item: state initializer, then both effects
Mounted(item) ==
    /\ loaded = item
    /\ soundSettings = InitialSettings(item)
    /\ storage = PersistEffect(item, InitialSettings(item))
    /\ sound = Construct(TRUE, "running")
    /\ hist = NoHistory(FALSE)

InitSettings ==
    /\ display = NewDisplay
    /\ cell = NewCell(FALSE, 0, TRUE, 0)
    /\ timers = <<>>
    /\ budget = MaxSettingsOps
    /\ lastOp = Op("mount", 0, DefaultSettings)
    /\ dimensions = [cols |-> 0, rows |-> 0]
    /\ displayMatrix = <<>>
    /\ grid = <<>>
    /\ probe = <<>>
    /\ wallClock = StartTime
    /\ audio = NoAudio
    /\ \E item \in StoredItems : Mounted(item)

\* setVolume(volume), then the persistence effect
SetVolume(volume) ==
    /\ budget > 0
    /\ budget' = budget - 1
    /\ soundSettings' = [soundSettings EXCEPT !.volume = ClampVolume(volume)]
    /\ storage' = PersistEffect(storage, soundSettings')
    /\ lastOp' = Op("setVolume", volume, soundSettings)
    /\ UNCHANGED <<cell, timers, gridVars, sound, wallClock, hist, loaded, audio>>

\* toggleSound(), then the persistence effect
ToggleSound ==
    /\ budget > 0
    /\ budget' = budget - 1
    /\ soundSettings' = [soundSettings EXCEPT !.enabled = ~soundSettings.enabled]
    /\ storage' = PersistEffect(storage, soundSettings')
    /\ lastOp' = Op("toggleSound", 0, soundSettings)
    /\ UNCHANGED <<cell, timers, gridVars, sound, wallClock, hist, loaded, audio>>

\* setEnabled(enabled), then the persistence effect
SetEnabled(enabled) ==
    /\ budget > 0
    /\ budget' = budget - 1
    /\ soundSettings' = [soundSettings EXCEPT !.enabled = enabled]
    /\ storage' = PersistEffect(storage, soundSettings')
    /\ lastOp' = Op("setEnabled", IF enabled THEN 1 ELSE 0, soundSettings)
    /\ UNCHANGED <<cell, timers, gridVars, sound, wallClock, hist, loaded, audio>>

\* the page is loaded again: the hook mounts over what is stored (the step
\* recorded names the operation before it)
Reload ==
    /\ budget > 0
    /\ budget' = budget - 1
    /\ loaded' = storage
    /\ soundSettings' = InitialSettings(storage)
    /\ storage' = PersistEffect(storage, InitialSettings(storage))
    /\ sound' = Construct(TRUE, "running")
    /\ hist' = NoHistory(FALSE)
    /\ lastOp' = Op("reload", lastOp.name, soundSettings)
    /\ UNCHANGED <<cell, timers, gridVars, wallClock, audio>>

\* playSound: playFlipSound(soundSettings.volume, soundSettings.enabled)
PlaySound(rnd) ==
    /\ budget > 0
    /\ budget' = budget - 1
    /\ LET r == PlayFlipSound(sound, wallClock, soundSettings.volume,
                              soundSettings.enabled, rnd)
       IN  /\ sound' = r.sound
           /\ hist' = Record(hist, sound, wallClock, soundSettings.enabled,
                             r.eligible)
           /\ lastOp' = Op("playSound", r.outcome, soundSettings)
    /\ UNCHANGED <<cell, timers, gridVars, wallClock, soundSettings, storage, loaded, audio>>

NextSettings ==
    \/ \E v \in VolumeInputs : SetVolume(v)
    \/ ToggleSound
    \/ \E e \in BOOLEAN : SetEnabled(e)
    \/ Reload
    \/ \E rnd \in RandomDraws : PlaySound(rnd)

SpecSettings == InitSettings /\ [][NextSettings]_vars

\* the stored item is what C19 calls absent or malformed
Malformed(item) ==
    \/ ~item.present
    \/ item.text = <<>>
    \/ ~JSONParse(item.text).ok
    \/ JSONParse(item.text).value.volume \notin 0..100

\* C18: every sound that is synthesized gets a gain between 0 and 0.4
\* (0..400 thousandths), whatever the settings were initialized from.
C18_GainWithinRange ==
    (lastOp.name = "playSound" /\ lastOp.arg = "played")
    => (sound.gain >= 0 /\ sound.gain <= 400)

\* C19: when the stored item is absent or malformed the settings start as
\* {enabled: true, volume: 30}.
C19_MalformedGivesDefaults ==
    (lastOp.name \in {"mount", "reload"} /\ Malformed(loaded))
    => soundSettings = DefaultSettings

\* C20: for v in 0..100, setVolume(v) followed by a reload gives volume v and
\* the same enabled value, and the item written is read back unchanged.
C20_StoreLoadIdentity ==
    [][(lastOp'.name = "reload" /\ lastOp.name = "setVolume"
        /\ lastOp.arg \in 0..100)
       => /\ soundSettings'.volume = lastOp.arg
          /\ soundSettings'.enabled = soundSettings.enabled
          /\ loaded' = storage
          /\ storage' = storage]_vars

C20_Witness ==
    /\ lastOp.name = "reload"
    /\ lastOp.arg = "setVolume"
    /\ lastOp.pre = [enabled |-> FALSE, volume |-> 100]
    /\ soundSettings = [enabled |-> FALSE, volume |-> 100]
    /\ loaded = Item(JSONStringify(soundSettings))

Setters == {"setVolume", "toggleSound", "setEnabled"}

\* C21: after setVolume, toggleSound or setEnabled and the persistence effect
\* the stored item is the serialization of the current settings, and nothing
\* but a setter (or a new initialization) changes the settings.
C21_SettersPersist ==
    [][/\ lastOp'.name \in Setters
          => storage' = Item(JSONStringify(soundSettings'))
       /\ soundSettings' # soundSettings
          => lastOp'.name \in Setters \cup {"reload"}]_vars

C21_Witness ==
    /\ lastOp.name = "toggleSound"
    /\ soundSettings = [enabled |-> FALSE, volume |-> 100]
    /\ storage = Item(JSONStringify(soundSettings))
    /\ storage # loaded
    /\ sound.nodes > 0

\* a trigger with enabled = true has just been made on an initialized manager
\* whose context was suspended
SuspendedTrigger ==
    /\ lastOp.name = "playFlipSound"
    /\ lastOp.arg.enabled
    /\ lastOp.pre.initialized
    /\ lastOp.pre.ctx = "suspended"

\* C24 as stated: every trigger with enabled = true on an initialized manager
\* whose context is suspended calls resume(), dropped triggers included.
C24_EveryTriggerResumes ==
    SuspendedTrigger => sound.resumes = lastOp.pre.resumes + 1

\* C24: every trigger with enabled = true on an initialized manager whose
\* context is suspended calls resume(), unless the burst throttle drops it; a
\* dropped trigger calls nothing.
C24_AcceptedTriggerResumes ==
    SuspendedTrigger
    => IF lastOp.arg.outcome = "dropped"
       THEN sound.resumes = lastOp.pre.resumes
       ELSE sound.resumes = lastOp.pre.resumes + 1

\* a trigger past the cap that Math.random() keeps
C24_Witness ==
    /\ SuspendedTrigger
    /\ lastOp.arg.eligible
    /\ lastOp.arg.outcome = "played"
    /\ sound.resumes = lastOp.pre.resumes + 1

-----------------------------------------------------------------------------
(* Audio graph specification: the sounds of one manager, their ended events
   and destroy() *)

MaxVoices == 2
MaxVoiceElapsed == 160
StepMs == 20
VoiceVolume == 30

\* the two paths of a sound connected at context time t (lines 87-95):
\* noise holds noiseSource, bodyFilter, mainGain and snap holds snapOscillator,
\* snapFilter, snapGain; born is Date.now() at the call
NewVoice(t, w) == [start |-> t, born |-> w, noise |-> TRUE, snap |-> TRUE]

\* the context time at which a path's source stops (lines 99, 102)
StopTime(v, path) == v.start + (IF path = "noise" THEN DurationMs ELSE SnapMs)

\* a destroy that leaves the flag set
DestroyManager_KeepFlag(s) ==
    IF s.ctx # "none" THEN [s EXCEPT !.ctx = "none"] ELSE s

\* destroy(): close the context, audioContext = null, initialized = false
DestroyManager(s) ==
    IF s.ctx # "none"
    THEN [s EXCEPT !.ctx = "none", !.initialized = FALSE]
    ELSE s

\* the ended event of a path of voice i can be dispatched: the source has
\* reached its stop time in a context that is open, or the context was closed
\* and the browser ends its sources
CanEnd(a, i, path) ==
    /\ a.voices[i][path]
    /\ IF a.closed THEN ~a.endedLost ELSE a.time >= StopTime(a.voices[i], path)

InitVoices ==
    /\ display = NewDisplay
    /\ cell = NewCell(FALSE, 0, TRUE, 0)
    /\ timers = <<>>
    /\ budget = MaxVoices
    /\ lastOp = Op("init", 0, "none")
    /\ dimensions = [cols |-> 0, rows |-> 0]
    /\ displayMatrix = <<>>
    /\ grid = <<>>
    /\ probe = <<>>
    /\ \E state \in {"running", "suspended"} : sound = Construct(TRUE, state)
    /\ hist = NoHistory(FALSE)
    /\ wallClock = StartTime
    /\ soundSettings = DefaultSettings
    /\ storage = NoItem
    /\ loaded = NoItem
    /\ audio = NoAudio

\* playFlipSound(volume, enabled) and the sound it connects
TriggerVoice(enabled) ==
    /\ budget > 0
    /\ LET r == PlayFlipSound(sound, wallClock, VoiceVolume, enabled, KeepBelow)
       IN  /\ sound' = r.sound
           /\ hist' = Record(hist, sound, wallClock, enabled, r.eligible)
           /\ audio' = IF r.sound.nodes > sound.nodes
                       THEN [audio EXCEPT
                                !.voices = Append(@, NewVoice(audio.time, wallClock))]
                       ELSE audio
           /\ lastOp' = Op("playFlipSound",
                           [volume |-> VoiceVolume, enabled |-> enabled,
                            outcome |-> r.outcome, eligible |-> r.eligible],
                           sound)
    /\ budget' = IF ReturnsEarly(sound, enabled) THEN budget ELSE budget - 1
    /\ UNCHANGED <<cell, timers, gridVars, wallClock, soundSettings, storage, loaded>>

\* the promise of audioContext.resume() resolves
ResumeCompletes ==
    /\ sound.ctx = "suspended"
    /\ sound.resumes > 0
    /\ sound' = [sound EXCEPT !.ctx = "running"]
    /\ lastOp' = Op("resumed", 0, sound)
    /\ UNCHANGED <<cell, timers, budget, gridVars, wallClock, hist,
                   soundSettings, storage, loaded, audio>>

\* noiseSource.onended / snapOscillator.onended: disconnect the path
Ended(i, path) ==
    /\ i \in DOMAIN audio.voices
    /\ CanEnd(audio, i, path)
    /\ audio' = [audio EXCEPT !.voices[i][path] = FALSE]
    /\ lastOp' = Op("ended", i, sound)
    /\ UNCHANGED <<cell, timers, budget, gridVars, sound, wallClock, hist,
                   soundSettings, storage, loaded>>

\* the hook unmounts: soundManagerRef.current?.destroy(); whether a closed
\* context still dispatches ended is the browser's choice
Destroy(lost) ==
    /\ ~audio.closed
    /\ sound' = DestroyManager(sound)
    /\ audio' = [audio EXCEPT !.closed = TRUE, !.endedLost = lost]
    /\ lastOp' = Op("destroy", 0, sound)
    /\ UNCHANGED <<cell, timers, budget, gridVars, wallClock, hist,
                   soundSettings, storage, loaded>>

\* time passes once every ended event that is due has been handled;
\* currentTime advances in a running context only
Advance20 ==
    /\ wallClock + StepMs <= StartTime + MaxVoiceElapsed
    /\ \A i \in DOMAIN audio.voices, path \in {"noise", "snap"} :
          ~CanEnd(audio, i, path)
    /\ wallClock' = wallClock + StepMs
    /\ audio' = IF sound.ctx = "running" /\ ~audio.closed
                THEN [audio EXCEPT !.time = @ + StepMs]
                ELSE audio
    /\ lastOp' = Op("advance", StepMs, sound)
    /\ UNCHANGED <<cell, timers, budget, gridVars, sound, hist,
                   soundSettings, storage, loaded>>

NextVoices ==
    \/ \E e \in BOOLEAN : TriggerVoice(e)
    \/ ResumeCompletes
    \/ \E i \in 1..MaxVoices, path \in {"noise", "snap"} : Ended(i, path)
    \/ \E lost \in BOOLEAN : Destroy(lost)
    \/ Advance20

SpecVoices == InitVoices /\ [][NextVoices]_vars

\* no node of the voice is connected any more
Released(v) == ~v.noise /\ ~v.snap

\* the full duration of the voice is over: in context time, or in Date.now()
\* time once the context is closed
DurationOver(v) ==
    \/ audio.time - v.start > DurationMs
    \/ audio.closed /\ wallClock - v.born > DurationMs

\* C22: once the full duration of a sound is over none of its six nodes is
\* connected, also when the manager was destroyed while the sound played.
C22_NodesReleased ==
    \A i \in DOMAIN audio.voices :
        DurationOver(audio.voices[i]) => Released(audio.voices[i])

\* the part of C22 that the code keeps: in a context that was never closed
C22_NodesReleasedWhileOpen ==
    \A i \in DOMAIN audio.voices :
        (~audio.closed /\ DurationOver(audio.voices[i]))
        => Released(audio.voices[i])

\* C23: after destroy() a trigger changes nothing: no synthesis, no use of
\* the closed context, lastPlayTime and playCount as they were.
C23_TriggerAfterDestroyNoop ==
    [][(audio.closed /\ lastOp'.name = "playFlipSound")
       => /\ sound' = sound
          /\ audio' = audio
          /\ ~sound'.threw]_vars

C23_Witness ==
    /\ audio.closed
    /\ lastOp.name = "playFlipSound"
    /\ lastOp.arg.enabled
    /\ lastOp.arg.outcome = "noop"
    /\ lastOp.pre.nodes > 0
    /\ sound = lastOp.pre
    /\ Len(audio.voices) = 1

-----------------------------------------------------------------------------
(* calculateDimensions over viewports of any size *)

\* values of window.innerWidth and window.innerHeight: around the 10 px
\* margin, around one and two dots, and around the three breakpoints
ViewportSides == {0, 5, 9, 10, 18, 19, 27, 640, 641, 768, 769, 1024, 1025}

InitDims ==
    /\ display = NewDisplay
    /\ cell = NewCell(FALSE, 0, 0, 0)
    /\ timers = <<>>
    /\ budget = 0
    /\ lastOp = Op("mount", 0, "none")
    /\ dimensions = [cols |-> 0, rows |-> 0]
    /\ displayMatrix = <<>>
    /\ grid = <<>>
    /\ probe = <<>>
    /\ SoundAtRest

\* calculateDimensions with the window at w x h: setDimensions({cols, rows})
Measure(w, h) ==
    /\ dimensions' = CalculateDimensions(w, h)
    /\ probe' = <<w, h>>
    /\ lastOp' = Op("calculateDimensions", <<w, h>>, "none")
    /\ UNCHANGED <<cell, timers, budget, displayMatrix, grid, display, soundVars>>

NextDims == \E w \in ViewportSides, h \in ViewportSides : Measure(w, h)

SpecDims == InitDims /\ [][NextDims]_vars

\* C25: cols and rows are never negative, whatever the viewport.
C25_DimensionsNonNegative == dimensions.cols >= 0 /\ dimensions.rows >= 0

\* the part of C25 that the code keeps: viewports of at least the margin
C25_NonNegativeFromMargin ==
    (probe # <<>> /\ probe[1] >= 10 /\ probe[2] >= 10)
    => (dimensions.cols >= 0 /\ dimensions.rows >= 0)

-----------------------------------------------------------------------------
(* Clock mode: the time string under the two formats *)

\* half hours the clock steps through
MaxClockSteps == 3
HalfHour == 30

InitClock ==
    /\ cell = NewCell(FALSE, 0, 0, 0)
    /\ timers = <<>>
    /\ budget = MaxClockSteps
    /\ lastOp = Op("mount", 0, "none")
    /\ dimensions = [cols |-> 0, rows |-> 0]
    /\ displayMatrix = <<>>
    /\ grid = <<>>
    /\ probe = <<>>
    /\ SoundAtRest
    /\ \E h \in 0..23 :
          display = [NewDisplay EXCEPT !.time = [h |-> h, m |-> 0],
                                       !.timeString = ClockString([h |-> h, m |-> 0])]

\* the 24 Hour / 12 Hour buttons: setClockFormat(format), then updateDisplay
\* (clockFormat is one of its dependencies)
SetClockFormat(format) ==
    /\ display' = [display EXCEPT !.clockFormat = format,
                                  !.timeString = ClockString(display.time)]
    /\ lastOp' = Op("setClockFormat", format, display.clockFormat)
    /\ UNCHANGED <<cell, timers, budget, dimensions, displayMatrix, grid, probe,
                   soundVars>>

\* setCurrentTime(newTime) from the interval, then updateDisplay
ClockTick ==
    /\ budget > 0
    /\ budget' = budget - 1
    /\ LET m == (display.time.m + HalfHour) % 60
           h == IF m = 0 THEN (display.time.h + 1) % 24 ELSE display.time.h
       IN  display' = [display EXCEPT !.time = [h |-> h, m |-> m],
                                      !.timeString = ClockString([h |-> h, m |-> m])]
    /\ lastOp' = Op("tick", 0, display.clockFormat)
    /\ UNCHANGED <<cell, timers, dimensions, displayMatrix, grid, probe, soundVars>>

NextClock ==
    \/ \E f \in {"24", "12"} : SetClockFormat(f)
    \/ ClockTick

SpecClock == InitClock /\ [][NextClock]_vars

\* the hour shown, as a number
HourShown == display.timeString.hh[1] * 10 + display.timeString.hh[2]

\* C26: with the 12-hour format the time string shows an hour in 1..12 and
\* AM or PM, with the 24-hour format an hour in 0..23 and no indicator.
C26_FormatSelectsHours ==
    IF display.clockFormat = "12"
    THEN HourShown \in 1..12 /\ display.timeString.suffix \in {"AM", "PM"}
    ELSE HourShown \in 0..23 /\ display.timeString.suffix = ""

\* the part of C26 that the code keeps: the 24-hour string
C26_TwentyFourHourString ==
    display.clockFormat = "24"
    => (HourShown = display.time.h /\ display.timeString.suffix = "")

-----------------------------------------------------------------------------
(* Resize handling: the debounce timer of the dimension effect *)

\* part_000:44  setTimeout(calculateDimensions, 100)
ResizeDebounceMs == 100

MaxResizeEvents == 3
MaxResizeElapsed == 400
ResizeStepMs == 40
TheWindow == "window"

\* clearTimeout(resizeTimeout)
ClearResizeTimeout(q) ==
    SelectSeq(q, LAMBDA t : ~(t.owner = TheWindow /\ t.kind = "resize"))

\* a handler that does not clear the pending timeout
ThrottledResize_NoClear(q) ==
    Append(q, Timer(TheWindow, "resize", ResizeDebounceMs, 0))

\* throttledResize: clearTimeout, then setTimeout(calculateDimensions, 100)
ThrottledResize(q) ==
    Append(ClearResizeTimeout(q), Timer(TheWindow, "resize", ResizeDebounceMs, 0))

\* the burst record after an event at time t
BurstAfterEvent(b, t) ==
    IF b.events > 0 /\ t - b.last < ResizeDebounceMs
    THEN [b EXCEPT !.events = @ + 1, !.last = t]
    ELSE [events |-> 1, last |-> t, computed |-> 0, firedAt |-> 0]

\* mount in a window of some size: calculateDimensions() runs at once and
\* the listener is added
InitResize ==
    /\ cell = NewCell(FALSE, 0, 0, 0)
    /\ timers = <<>>
    /\ budget = MaxResizeEvents
    /\ lastOp = Op("mount", 0, "none")
    /\ displayMatrix = <<>>
    /\ grid = <<>>
    /\ probe = <<>>
    /\ SoundAtRest
    /\ \E w \in Viewports, h \in Viewports :
          /\ display = [NewDisplay EXCEPT !.win = <<w, h>>]
          /\ dimensions = CalculateDimensions(w, h)

\* the window is resized to w x h: the resize event runs throttledResize
ResizeEvent(w, h) ==
    /\ display.mounted
    /\ budget > 0
    /\ budget' = budget - 1
    /\ timers' = ThrottledResize(timers)
    /\ display' = [display EXCEPT !.win = <<w, h>>,
                                  !.burst = BurstAfterEvent(@, wallClock)]
    /\ lastOp' = Op("resize", <<w, h>>, display.burst)
    /\ UNCHANGED <<cell, dimensions, displayMatrix, grid, probe, sound, hist,
                   wallClock, soundSettings, storage, loaded, audio>>

\* the timeout fires: calculateDimensions reads the window and sets the
\* dimensions (the render that follows is Resize of the grid specification)
ResizeFire ==
    /\ DueIdx(timers) # {}
    /\ LET i == NextDue(timers)
       IN  /\ timers[i].kind = "resize"
           /\ timers' = RemoveAt(timers, i)
    /\ dimensions' = CalculateDimensions(display.win[1], display.win[2])
    /\ display' = [display EXCEPT !.burst.computed = @ + 1,
                                  !.burst.firedAt = wallClock]
    /\ lastOp' = Op("calculateDimensions", display.win, display.burst)
    /\ UNCHANGED <<cell, budget, displayMatrix, grid, probe, sound, hist,
                   wallClock, soundSettings, storage, loaded, audio>>

\* the effect's cleanup: removeEventListener and clearTimeout(resizeTimeout)
UnmountDisplay ==
    /\ display.mounted
    /\ display' = [display EXCEPT !.mounted = FALSE]
    /\ timers' = ClearResizeTimeout(timers)
    /\ lastOp' = Op("unmount", 0, display.burst)
    /\ UNCHANGED <<cell, budget, dimensions, displayMatrix, grid, probe, sound,
                   hist, wallClock, soundSettings, storage, loaded, audio>>

\* time passes, up to the next deadline
ResizeElapse ==
    /\ DueIdx(timers) = {}
    /\ LET d == IF Len(timers) > 0 /\ MinRem(timers) < ResizeStepMs
                THEN MinRem(timers) ELSE ResizeStepMs
       IN  /\ wallClock + d <= MaxResizeElapsed
           /\ wallClock' = wallClock + d
           /\ timers' = Advance(timers, d)
           /\ lastOp' = Op("elapse", d, display.burst)
    /\ UNCHANGED <<cell, budget, gridVars, sound, hist, soundSettings, storage,
                   loaded, audio>>

NextResize ==
    \/ \E w \in Viewports, h \in Viewports : ResizeEvent(w, h)
    \/ ResizeFire
    \/ UnmountDisplay
    \/ ResizeElapse

SpecResize == InitResize /\ [][NextResize]_vars

\* C27: a burst of resize events, each less than 100 ms after the one before,
\* makes calculateDimensions run exactly once, 100 ms after the last event
\* of the burst, and never once the component is unmounted.
C27_ResizeDebounced ==
    [][/\ (display'.mounted /\ display'.burst.events > 0)
          => IF wallClock' - display'.burst.last < ResizeDebounceMs
             THEN display'.burst.computed = 0
             ELSE IF wallClock' - display'.burst.last > ResizeDebounceMs
             THEN /\ display'.burst.computed = 1
                  /\ display'.burst.firedAt
                         = display'.burst.last + ResizeDebounceMs
             ELSE display'.burst.computed <= 1
       /\ lastOp'.name = "calculateDimensions"
          => /\ display.mounted
             /\ wallClock = display.burst.last + ResizeDebounceMs
             /\ display'.burst.computed = 1
             /\ dimensions' = CalculateDimensions(display.win[1], display.win[2])
       /\ ~display.mounted
          => (dimensions' = dimensions /\ display'.burst = display.burst)]_vars

\* a burst of three events recomputed once, from the size of the last event
C27_Witness ==
    /\ lastOp.name = "calculateDimensions"
    /\ display.burst.events = 3
    /\ display.burst.computed = 1
    /\ display.burst.last > 0
    /\ wallClock = display.burst.last + ResizeDebounceMs
    /\ dimensions = CalculateDimensions(display.win[1], display.win[2])
    /\ dimensions # CalculateDimensions(10, 10)

-----------------------------------------------------------------------------
(* One FlipDot whose transitions are not interrupted *)

\* C28: currentState changes only while isFlipping is true, whatever the
\* sequence of target changes.
C28_ChangeWhileFlipping ==
    [][cell'.currentState # cell.currentState => cell.isFlipping]_vars

\* the parent changes the target only while the cell is at rest
TargetAtRest(v) ==
    /\ Quiescent
    /\ SetTarget(v)

NextUninterrupted ==
    \/ \E v \in BOOLEAN : TargetAtRest(v)
    \/ Fire
    \/ Elapse

SpecUninterrupted == InitCell /\ [][NextUninterrupted]_vars

\* C29: in a transition that no target change interrupts, onFlip is called
\* in the step that sets isFlipping (the start timer fires, its delay over,
\* currentState not yet the target), then currentState becomes the target
\* without a further call, then isFlipping is cleared.
C29_CallbackAtStart ==
    [][/\ cell'.flips # cell.flips
          => /\ lastOp'.name = "start"
             /\ PhaseOf(timers, TheCell) = "pending"
             /\ timers[NextDue(timers)].rem = 0
             /\ ~cell.isFlipping /\ cell'.isFlipping
             /\ cell.currentState # cell.isActive
             /\ cell'.currentState = cell.currentState
             /\ cell'.flips = cell.flips + 1
       /\ cell'.currentState # cell.currentState
          => /\ lastOp'.name = "flip"
             /\ cell.isFlipping /\ cell'.isFlipping
             /\ cell.sinceChange = 1
             /\ cell'.flips = cell.flips
             /\ cell'.currentState = cell.isActive
       /\ (cell.isFlipping /\ ~cell'.isFlipping)
          => /\ lastOp'.name = "reset"
             /\ cell.currentState = cell.isActive
             /\ cell.sinceChange = 0
             /\ cell'.flips = cell.flips]_vars

\* two transitions completed, the second after a delay
C29_Witness ==
    /\ lastOp.name = "reset"
    /\ Quiescent
    /\ cell.flips = 2
    /\ cell.changes = 2
    /\ cell.delay > 0

-----------------------------------------------------------------------------
(* The rendered grid against the dimensions *)

\* C30: the rendered cells are at most rows x cols and each has a row index
\* below rows and a column index below cols, also after a dimension change
\* and when a dimension is 0.
C30_RenderedWithinDimensions ==
    /\ Cardinality(DOMAIN grid) <= dimensions.rows * dimensions.cols
    /\ \A k \in DOMAIN grid : k[1] < dimensions.rows /\ k[2] < dimensions.cols

\* the part of C30 that the code keeps: once updateDisplay has built a matrix
\* for dimensions without a 0, the grid is exactly rows x cols
C30_RenderedWhenNonEmpty ==
    (dimensions.rows > 0 /\ dimensions.cols > 0)
    => /\ Cardinality(DOMAIN grid) = dimensions.rows * dimensions.cols
       /\ \A k \in DOMAIN grid : k[1] < dimensions.rows /\ k[2] < dimensions.cols

-----------------------------------------------------------------------------
(* The burst throttle, trigger by trigger (sound manager specification) *)

\* a trigger with enabled = true has just been made on an initialized manager
EffectiveTrigger ==
    /\ lastOp.name = "playFlipSound"
    /\ lastOp.arg.enabled
    /\ lastOp.pre.initialized

\* C34: a trigger is dropped only if it comes less than 5 ms after the last
\* accepted one and playCount after its increment exceeds 20; the trigger
\* that resets playCount and the 20 after it (playCount 1..20) are accepted.
C34_DropOnlyPastCap ==
    EffectiveTrigger
    => /\ lastOp.arg.outcome = "dropped"
          => /\ wallClock - lastOp.pre.lastPlayTime < ThrottleGapMs
             /\ sound.playCount = lastOp.pre.playCount + 1
             /\ sound.playCount > BurstCap
       /\ sound.playCount <= BurstCap => lastOp.arg.outcome = "played"

\* the 22nd trigger of a burst, dropped
C34_Witness ==
    /\ EffectiveTrigger
    /\ lastOp.arg.outcome = "dropped"
    /\ lastOp.pre.playCount = BurstCap
    /\ hist.run = BurstCap + 2

\* C35: a trigger that comes 5 ms or more after the last accepted trigger is
\* accepted and resets playCount to 0, however many were dropped in between.
C35_GapResetsBurst ==
    (EffectiveTrigger /\ wallClock - lastOp.pre.lastPlayTime >= ThrottleGapMs)
    => /\ lastOp.arg.outcome = "played"
       /\ sound.playCount = 0
       /\ sound.lastPlayTime = wallClock
       /\ sound.nodes = lastOp.pre.nodes + NodesPerSound

\* such a trigger after a burst in which a trigger was dropped: more
\* triggers were counted than sounds were made
C35_Witness ==
    /\ EffectiveTrigger
    /\ wallClock - lastOp.pre.lastPlayTime >= ThrottleGapMs
    /\ lastOp.pre.playCount > BurstCap
    /\ (MaxTriggers - budget) * NodesPerSound > sound.nodes
    /\ sound.playCount = 0

\* C36: a dropped trigger changes nothing but playCount, which it raises by
\* one; an accepted trigger sets lastPlayTime to its time.
C36_DropFrame ==
    EffectiveTrigger
    => IF lastOp.arg.outcome = "dropped"
       THEN sound = [lastOp.pre EXCEPT !.playCount = @ + 1]
       ELSE sound.lastPlayTime = wallClock

\* a trigger dropped at a later time than the last accepted one
C36_Witness ==
    /\ EffectiveTrigger
    /\ lastOp.arg.outcome = "dropped"
    /\ wallClock > lastOp.pre.lastPlayTime
    /\ sound.lastPlayTime = lastOp.pre.lastPlayTime
    /\ sound.nodes = lastOp.pre.nodes

-----------------------------------------------------------------------------
(* The setters of the sound settings (settings specification) *)

\* C37: setVolume(v) sets volume to v limited to 0..100 and keeps enabled;
\* toggleSound and setEnabled keep volume; two toggleSound in a row give back
\* the settings from before the first.
C37_SetterAlgebra ==
    [][/\ lastOp'.name = "setVolume"
          => /\ soundSettings'.volume
                   = (IF lastOp'.arg < 0 THEN 0
                      ELSE IF lastOp'.arg > 100 THEN 100 ELSE lastOp'.arg)
             /\ soundSettings'.enabled = soundSettings.enabled
       /\ lastOp'.name = "toggleSound"
          => /\ soundSettings'.enabled = ~soundSettings.enabled
             /\ soundSettings'.volume = soundSettings.volume
       /\ lastOp'.name = "setEnabled"
          => /\ soundSettings'.enabled = (lastOp'.arg = 1)
             /\ soundSettings'.volume = soundSettings.volume
       /\ (lastOp'.name = "toggleSound" /\ lastOp.name = "toggleSound")
          => soundSettings' = lastOp.pre]_vars

\* a volume below the range limited to 0, with sound off
C37_Witness ==
    /\ lastOp.name = "setVolume"
    /\ lastOp.arg < 0
    /\ lastOp.pre.volume > 0
    /\ ~lastOp.pre.enabled
    /\ soundSettings = [enabled |-> FALSE, volume |-> 0]

-----------------------------------------------------------------------------
(* One grid position whose FlipDot is created and re-created *)

InitCreate ==
    /\ display = NewDisplay
    /\ \E a \in BOOLEAN, d \in CellDelays :
          LET m == MountCell(a, d, 0, MaxChanges, <<>>, TheCell)
          IN  /\ cell = m.cell
              /\ timers = m.timers
              /\ lastOp = Op("mount", a, "none")
    /\ budget = MaxChanges
    /\ dimensions = [cols |-> 0, rows |-> 0]
    /\ displayMatrix = <<>>
    /\ grid = <<>>
    /\ probe = <<>>
    /\ SoundAtRest

\* the column count changes: the key at this position is a new one, so the
\* old instance is unmounted and a new one is mounted in its place
Recreate(a, d) ==
    /\ cell.mounted
    /\ budget > 0
    /\ LET q1 == UnmountCell(cell, timers, TheCell).timers
           q2 == [i \in 1..Len(q1) |->
                     IF q1[i].owner = TheCell
                     THEN [q1[i] EXCEPT !.owner = Dead] ELSE q1[i]]
           m  == MountCell(a, d, cell.onFlip, budget - 1, q2, TheCell)
       IN  /\ cell' = m.cell
           /\ timers' = m.timers
    /\ budget' = budget - 1
    /\ lastOp' = Op("create", a, PhaseOf(timers, TheCell))
    /\ UNCHANGED <<gridVars, soundVars>>

\* a timer of the mounted instance acts on it; one left behind by an
\* unmounted instance finds no instance
CreateFire ==
    /\ DueIdx(timers) # {}
    /\ LET i == NextDue(timers)
       IN  /\ IF timers[i].owner = TheCell
              THEN LET r == FireTimer(cell, timers, i)
                   IN  cell' = r.cell /\ timers' = r.timers
              ELSE /\ timers' = FireTimer(DeadCell, timers, i).timers
                   /\ cell' = cell
           /\ lastOp' = Op(timers[i].kind, 0, "none")
    /\ UNCHANGED <<budget, gridVars, soundVars>>

NextCreate ==
    \/ \E a \in BOOLEAN, d \in CellDelays : Recreate(a, d)
    \/ \E v \in BOOLEAN : SetTarget(v)
    \/ CreateFire
    \/ Elapse

SpecCreate == InitCreate /\ [][NextCreate]_vars

\* C33: a cell that has just been created (first mount, or re-creation after
\* a column-count change) is idle with currentState equal to its first
\* target, whatever that target is: no timer of its own is scheduled and no
\* flip callback has been invoked.
C33_CreatedIdle ==
    lastOp.name \in {"mount", "create"}
    => /\ cell.mounted
       /\ cell.isActive = lastOp.arg
       /\ cell.currentState = lastOp.arg
       /\ ~cell.isFlipping
       /\ cell.flips = 0
       /\ OwnTimers(timers, TheCell) = {}

\* a lit cell re-created while the instance before it was in mid-transition
C33_Witness ==
    /\ lastOp.name = "create"
    /\ lastOp.arg = TRUE
    /\ lastOp.pre = "flipping"
    /\ timers # <<>>
    /\ cell.currentState

-----------------------------------------------------------------------------
(* One FlipDot whose delay and onFlip change during a transition *)

\* the target changes only at rest; delay and onFlip change at any time
NextPropChange ==
    \/ \E v \in BOOLEAN : TargetAtRest(v)
    \/ \E d \in CellDelays : SetDelay(d)
    \/ SetOnFlip
    \/ Fire
    \/ Elapse

SpecPropChange == InitCell /\ [][NextPropChange]_vars

\* C31: while the target is unchanged and differs from currentState, a new
\* onFlip or a new delay causes no additional flip callback: onFlip has been
\* called at most once since currentState last changed, exactly once when
\* currentState becomes the target, and a cell at rest has had one callback
\* per change of currentState.
C31_OneCallbackPerTransition ==
    /\ cell.sinceChange <= 1
    /\ Quiescent => cell.flips = cell.changes

\* C31, first case only: a new onFlip or delay that arrives while the start
\* timer is pending leaves the transition with one pending start timer and
\* no callback made yet.
C31_PendingChangeRearms ==
    (lastOp.name \in {"SetDelay", "SetOnFlip"} /\ lastOp.pre = "pending")
    => /\ cell.sinceChange = 0
       /\ PhaseOf(timers, TheCell) = "pending"
       /\ Cardinality(OwnTimers(timers, TheCell)) = 1
       /\ timers[1].cb = cell.onFlip
       /\ timers[1].rem = TimeoutMs(cell.delay)

-----------------------------------------------------------------------------
(* One FlipDot whose onFlip is the hook's playSound *)

\* useCallback(..., [soundSettings]): a new function for every new settings
\* object, closing over that object; id tells the functions apart and at is
\* the time the function was made
PlaySoundClosure(id, at, settings) ==
    [id |-> id, at |-> at, settings |-> settings]

InitFlipSound ==
    /\ display = NewDisplay
    /\ \E a \in BOOLEAN, d \in CellDelays :
          LET m == MountCell(a, d,
                             PlaySoundClosure(0, StartTime, DefaultSettings),
                             MaxChanges, <<>>, TheCell)
          IN  cell = m.cell /\ timers = m.timers
    /\ budget = MaxChanges
    /\ lastOp = Op("mount", 0, DefaultSettings)
    /\ dimensions = [cols |-> 0, rows |-> 0]
    /\ displayMatrix = <<>>
    /\ grid = <<>>
    /\ probe = <<>>
    /\ wallClock = StartTime
    /\ audio = NoAudio
    /\ Mounted(NoItem)

\* the settings object is replaced: the persistence effect runs, playSound is
\* made anew and the cell is rendered with it
Rerender(settings, name, arg) ==
    /\ soundSettings' = settings
    /\ storage' = PersistEffect(storage, settings)
    /\ LET f == PlaySoundClosure(MaxChanges - budget + 1, wallClock, settings)
           r == SetProps(cell, timers, TheCell, cell.isActive, cell.delay, f)
       IN  cell' = r.cell /\ timers' = r.timers
    /\ lastOp' = Op(name, arg, PhaseOf(timers, TheCell))

VolumeSlider(volume) ==
    /\ budget > 0
    /\ budget' = budget - 1
    /\ Rerender([soundSettings EXCEPT !.volume = ClampVolume(volume)],
                "setVolume", volume)
    /\ UNCHANGED <<gridVars, sound, wallClock, hist, loaded, audio>>

SoundButton ==
    /\ budget > 0
    /\ budget' = budget - 1
    /\ Rerender([soundSettings EXCEPT !.enabled = ~soundSettings.enabled],
                "toggleSound", 0)
    /\ UNCHANGED <<gridVars, sound, wallClock, hist, loaded, audio>>

\* a timer fires; the start timer's callback calls the playSound it closed
\* over, which passes the settings it closed over to playFlipSound
FlipSoundFire(rnd) ==
    /\ DueIdx(timers) # {}
    /\ LET i == NextDue(timers)
           r == FireTimer(cell, timers, i)
       IN  /\ cell' = r.cell
           /\ timers' = r.timers
           /\ IF r.cell.flips # cell.flips
              THEN LET st == r.cell.lastCb.settings
                       p  == PlayFlipSound(sound, wallClock, st.volume,
                                           st.enabled, rnd)
                   IN  /\ sound' = p.sound
                       /\ lastOp' = Op("playFlipSound",
                                       [volume |-> st.volume,
                                        enabled |-> st.enabled,
                                        outcome |-> p.outcome],
                                       soundSettings)
              ELSE /\ sound' = sound
                   /\ lastOp' = Op(timers[i].kind, 0, "none")
    /\ UNCHANGED <<budget, gridVars, wallClock, hist, soundSettings, storage,
                   loaded, audio>>

FlipSoundElapse ==
    /\ \E d \in ElapseChoices(timers) :
          /\ timers' = Advance(timers, d)
          /\ wallClock' = wallClock + d
    /\ lastOp' = Op("Elapse", 0, "none")
    /\ UNCHANGED <<cell, budget, gridVars, sound, hist, soundSettings, storage,
                   loaded, audio>>

NextFlipSound ==
    \/ \E v \in BOOLEAN : SetTarget(v)
    \/ \E v \in Volumes : VolumeSlider(v)
    \/ SoundButton
    \/ \E rnd \in RandomDraws : FlipSoundFire(rnd)
    \/ FlipSoundElapse

SpecFlipSound == InitFlipSound /\ [][NextFlipSound]_vars

\* C32: the trigger a flip callback issues carries the enabled and volume
\* values of the sound settings in force at the moment it fires, also when
\* they were changed while the cell's start timer was pending.
C32_TriggerCarriesCurrentSettings ==
    lastOp.name = "playFlipSound"
    => /\ lastOp.arg.volume = lastOp.pre.volume
       /\ lastOp.arg.enabled = lastOp.pre.enabled
       /\ lastOp.pre = soundSettings
       /\ cell.lastCb = cell.onFlip

\* the first callback of a cell, made with a playSound created after time
\* had passed, that is while its start timer was pending, and carrying
\* values that differ from those in force when the timer was first scheduled
C32_Witness ==
    /\ lastOp.name = "playFlipSound"
    /\ cell.flips = 1
    /\ cell.lastCb.at > StartTime
    /\ budget = MaxChanges - 2
    /\ lastOp.arg.volume # DefaultSettings.volume
    /\ lastOp.arg.outcome = "played"

====
